---- MODULE Spec2Model ----
(***************************************************************************)
(* ReportView (frontend/src/components/ReportView.js): a stateless React   *)
(* function component.  Each invocation takes the `report` prop and        *)
(* returns a view tree, or throws.  The model keeps the last prop, the     *)
(* last returned tree and the last render-local featureData.               *)
(*                                                                         *)
(* JavaScript values are tagged records (field t is the typeof-like tag),  *)
(* so that undefined, null, strings, numbers, arrays and objects stay      *)
(* distinct values.  Objects keep their own properties as a sequence of    *)
(* entries in creation order, which is what the engine remembers.          *)
(* Importance numbers are carried in tenths (3 stands for 0.3).            *)
(***************************************************************************)
EXTENDS Integers, Sequences, FiniteSets, TLC

VARIABLES report, view, featureData, supplied, other

vars == <<report, view, featureData, supplied, other>>

(* ------------------------------ bounds --------------------------------- *)
MaxColumns == 2
MaxDropped == 2
MaxFeatures == 2

(* --------------------------- JavaScript values ------------------------- *)
Undefined == [t |-> "undefined"]
Null == [t |-> "null"]
Str(s) == [t |-> "string", s |-> s]
Num(n) == [t |-> "number", n |-> n]
Arr(a) == [t |-> "array", a |-> a]
Obj(entries) == [t |-> "object", entries |-> entries]

IsNullish(v) == v.t \in {"undefined", "null"}

\* ToBoolean with undefined taken as truthy (a guard written `report === null`).
ToBooleanNullOnly(v) ==
    CASE v.t = "undefined" -> TRUE
      [] v.t = "null" -> FALSE
      [] v.t = "string" -> v.s # ""
      [] v.t = "number" -> v.n # 0
      [] OTHER -> TRUE

\* ECMAScript ToBoolean, as applied by `!report` and by `||`.
ToBoolean(v) ==
    CASE v.t = "undefined" -> FALSE
      [] v.t = "null" -> FALSE
      [] v.t = "string" -> v.s # ""
      [] v.t = "number" -> v.n # 0
      [] OTHER -> TRUE

\* a ?? b: only undefined and null give way to b.
NullishOr(a, b) == IF a.t \in {"undefined", "null"} THEN b ELSE a

\* a || b
Or(a, b) == IF ToBoolean(a) THEN a ELSE b

(* ----------------------- own property keys of an object ---------------- *)
\* The canonical array-index strings among the modelled keys, with their
\* numeric value; -1 for a key that is not an array index.
ArrayIndex(k) ==
    CASE k = "2" -> 2
      [] k = "10" -> 10
      [] OTHER -> -1

IsArrayIndex(k) == ArrayIndex(k) >= 0

RECURSIVE AscendingIndices(_)
AscendingIndices(S) ==
    IF S = {} THEN <<>>
    ELSE LET m == CHOOSE x \in S : \A y \in S : ArrayIndex(x) <= ArrayIndex(y)
         IN <<m>> \o AscendingIndices(S \ {m})

\* The keys of the entries in creation order.
CreationOrder(obj) == [i \in 1..Len(obj.entries) |-> obj.entries[i].key]

NotArrayIndex(k) == ~IsArrayIndex(k)

\* Object.keys(obj): array-index keys in ascending numeric order, then the
\* string keys in creation order (OrdinaryOwnPropertyKeys).
ObjectKeys(obj) ==
    LET keys == CreationOrder(obj)
        idx == {keys[i] : i \in {j \in 1..Len(keys) : IsArrayIndex(keys[j])}}
    IN AscendingIndices(idx) \o SelectSeq(keys, NotArrayIndex)

\* obj[k] ?? 0: a missing property read as the number 0.
GetOrZero(obj, k) ==
    IF \E i \in 1..Len(obj.entries) : obj.entries[i].key = k
    THEN obj.entries[CHOOSE i \in 1..Len(obj.entries) : obj.entries[i].key = k].value
    ELSE Num(0)

\* obj[k]: the value of the own property k, undefined when there is none.
Get(obj, k) ==
    IF \E i \in 1..Len(obj.entries) : obj.entries[i].key = k
    THEN obj.entries[CHOOSE i \in 1..Len(obj.entries) : obj.entries[i].key = k].value
    ELSE Undefined

(* ------------------------------ the view ------------------------------- *)
EmptyMessage == "No report data available yet. Upload a dataset first!"
\* Line 83, without its trailing check-mark glyph.
NoDroppedMessage == "No columns dropped"

\* Lines 7-11.
EmptyStateView == [kind |-> "NoReport", message |-> EmptyMessage, panels |-> <<>>]

\* A TypeError thrown out of the component: nothing is returned.
Fault == [kind |-> "Fault", error |-> "TypeError", panels |-> <<>>]

RECURSIVE MapFeatures(_)
MapFeatures(items) ==
    IF items = <<>> THEN <<>>
    ELSE <<[name |-> Head(items).feature, importance |-> Head(items).importance]>>
         \o MapFeatures(Tail(items))

RECURSIVE Reversed(_)
Reversed(s) == IF s = <<>> THEN <<>> ELSE Reversed(Tail(s)) \o <<Head(s)>>

\* featureData built in descending instead of source order.
FeatureDataReversed(model_metrics) ==
    IF IsNullish(model_metrics) THEN <<>>
    ELSE IF IsNullish(model_metrics.feature_importances) THEN <<>>
    ELSE Reversed(MapFeatures(model_metrics.feature_importances.a))

\* Lines 27-31: model_metrics?.feature_importances?.map(...) || [].
\* A mapped array is truthy even when empty, so || [] only replaces undefined.
FeatureData(model_metrics) ==
    IF IsNullish(model_metrics) THEN <<>>
    ELSE IF IsNullish(model_metrics.feature_importances) THEN <<>>
    ELSE MapFeatures(model_metrics.feature_importances.a)

\* Lines 36-45.
SummaryPanel(r) ==
    [name |-> "summary",
     rows |-> r.rows,
     columns |-> r.columns,
     detected_target |-> Or(r.detected_target, Str("None")),
     cleaned_path |-> r.cleaned_path,
     model_path |-> r.model_path]

\* Lines 60-66: one <tr> per key of Object.keys(column_types).
TableRows(column_types, missing_counts) ==
    LET keys == ObjectKeys(column_types)
    IN [i \in 1..Len(keys) |->
          [col |-> Str(keys[i]),
           type |-> Get(column_types, keys[i]),
           missing |-> Get(missing_counts, keys[i])]]

\* Lines 48-70.
TablePanel(column_types, missing_counts) ==
    [name |-> "table",
     header |-> <<"Column", "Type", "Missing Values">>,
     rows |-> TableRows(column_types, missing_counts)]

\* The list form chosen only for two or more dropped columns.
DroppedPanelOffByOne(dropped_columns) ==
    IF Len(dropped_columns.a) > 1
    THEN [name |-> "dropped", form |-> "list", items |-> dropped_columns.a, message |-> ""]
    ELSE [name |-> "dropped", form |-> "message", items |-> <<>>, message |-> NoDroppedMessage]

\* Lines 73-86, for dropped_columns an array.
DroppedPanel(dropped_columns) ==
    IF Len(dropped_columns.a) > 0
    THEN [name |-> "dropped", form |-> "list", items |-> dropped_columns.a, message |-> ""]
    ELSE [name |-> "dropped", form |-> "message", items |-> <<>>, message |-> NoDroppedMessage]

\* The chart card returned whether or not there is anything to draw.
ChartPanelsAlways(series) ==
    <<[name |-> "chart", data |-> series, xKey |-> "name", barKey |-> "importance"]>>

\* Lines 89-104: featureData.length > 0 && <Card>...</Card>.
ChartPanels(series) ==
    IF Len(series) > 0
    THEN <<[name |-> "chart", data |-> series, xKey |-> "name", barKey |-> "importance"]>>
    ELSE <<>>

\* Lines 33-106: the returned tree, or the TypeError of the first property
\* read from undefined/null (Object.keys(column_types), missing_counts[col],
\* dropped_columns.length), in the order the JSX children are evaluated.
Panels(r, series) ==
    IF IsNullish(r.column_types) THEN Fault
    ELSE IF IsNullish(r.missing_counts) /\ Len(r.column_types.entries) > 0 THEN Fault
    ELSE IF IsNullish(r.dropped_columns) THEN Fault
    ELSE [kind |-> "HasReport",
          panels |-> <<SummaryPanel(r),
                       TablePanel(r.column_types, r.missing_counts),
                       DroppedPanel(r.dropped_columns)>>
                     \o ChartPanels(series)]

\* Lines 5-107.  The result carries the tree (or fault) and the value of the
\* local featureData, undefined when line 27 was not reached.
ReportView(r) ==
    IF ~ToBoolean(r) THEN [view |-> EmptyStateView, featureData |-> Undefined]
    ELSE IF IsNullish(r) THEN [view |-> Fault, featureData |-> Undefined]
    ELSE LET series == FeatureData(r.model_metrics)
         IN [view |-> Panels(r, series), featureData |-> Arr(series)]

PanelNames(v) == {v.panels[i].name : i \in 1..Len(v.panels)}

Panel(v, n) == v.panels[CHOOSE i \in 1..Len(v.panels) : v.panels[i].name = n]

\* The text React puts in the DOM for a child value: nothing for undefined
\* and null, the string itself, the decimal digits of a number.
Text(v) ==
    CASE v.t = "string" -> v.s
      [] v.t = "number" -> ToString(v.n)
      [] OTHER -> ""

(* ------------------------------ the inputs ----------------------------- *)
SeqsUpTo(S, n) == UNION {[1..m -> S] : m \in 0..n}

Injective(s) == \A i, j \in 1..Len(s) : s[i] = s[j] => i = j

Keys == {"2", "10", "age"}
TypeLabel(k) == IF IsArrayIndex(k) THEN Str("float") ELSE Str("int")
MissingCount(k) == IF k = "age" THEN Num(0) ELSE Num(7)

KeySeqs == {s \in SeqsUpTo(Keys, MaxColumns) : Injective(s)}

ColumnTypesValues ==
    {Obj([i \in 1..Len(s) |-> [key |-> s[i], value |-> TypeLabel(s[i])]]) : s \in KeySeqs}

MissingCountsValues ==
    {Obj([i \in 1..Len(s) |-> [key |-> s[i], value |-> MissingCount(s[i])]]) : s \in KeySeqs}

DroppedNames == {Str("id"), Str("notes")}
DroppedValues == {Undefined} \cup {Arr(s) : s \in SeqsUpTo(DroppedNames, MaxDropped)}
DroppedBasic == {Undefined, Arr(<<>>), Arr(<<Str("id"), Str("notes")>>)}

Items ==
    {[feature |-> Str("a"), importance |-> Num(3)],
     [feature |-> Str("b"), importance |-> Num(9)],
     [feature |-> Str("c"), importance |-> Num(3)]}

ModelMetricsValues ==
    {Undefined, Null, [t |-> "object", feature_importances |-> Undefined]}
    \cup {[t |-> "object", feature_importances |-> Arr(s)] : s \in SeqsUpTo(Items, MaxFeatures)}
ModelMetricsBasic ==
    {Undefined,
     [t |-> "object", feature_importances |-> Arr(<<>>)],
     [t |-> "object", feature_importances |-> Arr(<<[feature |-> Str("age"), importance |-> Num(8)]>>)]}

\* The report of the spec's scenario: 100 rows, 5 columns, one column "age".
Base ==
    [t |-> "object",
     rows |-> Num(100),
     columns |-> Num(5),
     detected_target |-> Null,
     cleaned_path |-> Str("x.csv"),
     model_path |-> Str("m.pkl"),
     datetime_columns |-> Undefined,
     column_types |-> Obj(<<[key |-> "age", value |-> Str("int")]>>),
     missing_counts |-> Obj(<<[key |-> "age", value |-> Num(0)]>>),
     dropped_columns |-> Arr(<<>>),
     model_metrics |-> Undefined]

SummaryReports ==
    {[Base EXCEPT !.rows = rw, !.columns = cl, !.detected_target = dt,
                  !.cleaned_path = cp, !.model_path = mp, !.dropped_columns = d] :
        rw \in {Num(0), Num(100)}, cl \in {Num(0), Num(5)},
        dt \in {Undefined, Null, Str(""), Str("price")},
        cp \in {Undefined, Str("x.csv")}, mp \in {Undefined, Str("m.pkl")},
        d \in DroppedBasic}

TableReports ==
    {[Base EXCEPT !.column_types = ct, !.missing_counts = mc, !.dropped_columns = d] :
        ct \in ColumnTypesValues, mc \in MissingCountsValues, d \in DroppedBasic}

DroppedReports ==
    {[Base EXCEPT !.dropped_columns = d, !.model_metrics = m] :
        d \in DroppedValues, m \in ModelMetricsBasic}

ChartReports ==
    {[Base EXCEPT !.model_metrics = m, !.dropped_columns = d] :
        m \in ModelMetricsValues, d \in DroppedBasic}

\* Present reports: the scenario report varied in one group of fields at a
\* time, each time with dropped_columns absent, empty and non-empty.
Reports == SummaryReports \cup TableReports \cup DroppedReports \cup ChartReports

Absent == {Null, Undefined}

(* ------------------------------ the machine ---------------------------- *)
\* Before any upload the host passes no report.
Init ==
    /\ report = Null
    /\ supplied = Null
    /\ view = ReportView(Null).view
    /\ featureData = ReportView(Null).featureData
    /\ other = [report |-> Null, view |-> ReportView(Null).view,
                featureData |-> ReportView(Null).featureData]

\* A render that keeps a series built by an earlier render.
RenderStale(r) ==
    LET out == ReportView(r)
        series == IF featureData.t = "array" /\ Len(featureData.a) > 0
                  THEN featureData.a
                  ELSE FeatureData(r.model_metrics)
    IN /\ supplied' = r
       /\ report' = r
       /\ view' = IF out.view.kind = "HasReport" THEN Panels(r, series) ELSE out.view
       /\ featureData' = IF out.view.kind = "NoReport" THEN out.featureData ELSE Arr(series)
       /\ UNCHANGED other

\* One invocation of ReportView({report: r}); the component assigns to
\* nothing outside its locals, so the object passed in is what it was.
Render(r) ==
    LET out == ReportView(r)
    IN /\ supplied' = r
       /\ report' = r
       /\ view' = out.view
       /\ featureData' = out.featureData
       /\ UNCHANGED other

\* The host supplies a report (after an analysis finished).
Upload(r) == r \in Reports /\ Render(r)

\* The host withdraws the report (the user resets).
Reset(a) == a \in Absent /\ Render(a)

Next == (\E r \in Reports : Upload(r)) \/ (\E a \in Absent : Reset(a))

Spec == Init /\ [][Next]_vars

(* --------------- two streams of invocations of the component ----------- *)
\* The reports the two streams draw from.
PureInputs == ChartReports \cup Absent

\* An invocation of the same function in a second stream of renders (another
\* mount, or a re-invocation by the host), with its own locals.
RenderOther(r) ==
    LET out == ReportView(r)
    IN /\ other' = [report |-> r, view |-> out.view, featureData |-> out.featureData]
       /\ UNCHANGED <<report, view, featureData, supplied>>

RenderHere(r) == r \in PureInputs /\ Render(r)

RenderThere(r) == r \in PureInputs /\ RenderOther(r)

NextPure == (\E r \in PureInputs : RenderHere(r)) \/ (\E r \in PureInputs : RenderThere(r))

SpecPure == Init /\ [][NextPure]_vars

(* ------------------------------ the claims ----------------------------- *)
IsPresent(r) == r.t = "object"

\* A present report shaped as the data model describes it: column_types and
\* missing_counts are mappings and dropped_columns is a sequence.  The
\* optional fields (detected_target, model_metrics, the paths) may be absent.
WellFormed(r) ==
    /\ IsPresent(r)
    /\ r.column_types.t = "object"
    /\ r.missing_counts.t = "object"
    /\ r.dropped_columns.t = "array"

HasAll(v, names) == v.kind = "HasReport" /\ names \subseteq PanelNames(v)

KeySet(obj) == {obj.entries[i].key : i \in 1..Len(obj.entries)}

\* C1: a render whose report is null or undefined returns exactly the
\* empty-state view, with none of the four panels, raises no fault and does
\* not get as far as building featureData from the report.
C1_AbsentGivesEmptyState ==
    IsNullish(report) =>
        /\ view = EmptyStateView
        /\ PanelNames(view) = {}
        /\ featureData = Undefined

C1_Witness == report = Undefined /\ view = EmptyStateView

\* C2: a present report without dropped_columns renders without a fault,
\* with the "no columns dropped" message and with the summary and table.
C2_AbsentDroppedIsEmpty ==
    (IsPresent(report) /\ IsNullish(report.dropped_columns)) =>
        /\ HasAll(view, {"summary", "table", "dropped"})
        /\ Panel(view, "dropped").form = "message"
        /\ Panel(view, "dropped").message = NoDroppedMessage

\* C3: the table of a present report has exactly one row per key of
\* column_types, in the order the keys were inserted upstream, also when
\* keys look like non-negative integers.  (Stated for the reports whose
\* dropped_columns is a sequence, so that a table is returned at all.)
C3_RowsInInsertionOrder ==
    WellFormed(report) =>
        /\ HasAll(view, {"table"})
        /\ LET rows == Panel(view, "table").rows
               keys == CreationOrder(report.column_types)
           IN /\ Len(rows) = Len(keys)
              /\ \A i \in 1..Len(keys) : rows[i].col = Str(keys[i])

C5_FeatureSeriesIsImage ==
    IsPresent(report) =>
        /\ featureData.t = "array"
        /\ IF IsNullish(report.model_metrics) THEN featureData.a = <<>>
           ELSE IF IsNullish(report.model_metrics.feature_importances) THEN featureData.a = <<>>
           ELSE LET src == report.model_metrics.feature_importances.a
                IN /\ Len(featureData.a) = Len(src)
                   /\ \A i \in 1..Len(src) :
                         /\ featureData.a[i].name = src[i].feature
                         /\ featureData.a[i].importance = src[i].importance
                         /\ DOMAIN featureData.a[i] = {"name", "importance"}

C5_Witness ==
    /\ IsPresent(report)
    /\ featureData = Arr(<<[name |-> Str("a"), importance |-> Num(3)],
                           [name |-> Str("b"), importance |-> Num(9)]>>)

C7_DroppedPanelForms ==
    WellFormed(report) =>
        /\ HasAll(view, {"dropped"})
        /\ LET d == report.dropped_columns.a
               p == Panel(view, "dropped")
           IN /\ Len(d) = 0 => (p.form = "message" /\ p.message = NoDroppedMessage
                                /\ p.items = <<>>)
              /\ Len(d) >= 1 => (p.form = "list" /\ p.items = d /\ p.message = "")

C7_Witness ==
    /\ WellFormed(report)
    /\ report.dropped_columns = Arr(<<Str("notes"), Str("id")>>)
    /\ HasAll(view, {"dropped"})
    /\ Panel(view, "dropped").items = <<Str("notes"), Str("id")>>

C9_TwoStates ==
    /\ view.kind \in {"NoReport", "HasReport"}
    /\ IsNullish(report) <=> view.kind = "NoReport"
    /\ IsPresent(report) => HasAll(view, {"summary", "table", "dropped"})

====
